---------------------------- MODULE Spec2Model ----------------------------
(***************************************************************************)
(* Model of ibis-server's session-context cache (app/mdl/core.py) and of   *)
(* the ClickHouse metadata reader (app/model/metadata/clickhouse.py).      *)
(*                                                                         *)
(*   SpecCache   callers of get_session_context, a function wrapped by     *)
(*               functools.cache, interleaved at the points where the      *)
(*               interpreter may switch threads                            *)
(*   SpecTables  one run of ClickHouseMetadata.get_table_list over a       *)
(*               response of catalog rows                                  *)
(*   SpecType    one application of _transform_column_type                 *)
(***************************************************************************)
EXTENDS Naturals, Sequences, FiniteSets, TLC

VARIABLES
    \* ---- app/mdl/core.py
    cache,      \* the dict of the functools.cache wrapper: key -> handle
    pc,         \* per caller: "idle" | "constructing" | "built"
    cur,        \* per caller: the argument list of its call in progress
    inv,        \* per caller: the handle its constructor call is building
    ctorCalls,  \* parameter values -> number of SessionContext(...) calls
    ncalls,     \* number of get_session_context calls made so far
    last,       \* the call that ended last: arguments and outcome
    during,     \* history, per caller: whether another caller's constructor
                \* call was in flight when its call in progress started
    returned,   \* history: <<parameter values, handle>> of every return
    failed,     \* history: parameter values whose construction has raised
    \* ---- app/model/metadata/clickhouse.py, get_table_list
    response,       \* the rows the catalog query returned, in order
    row_no,         \* number of rows the loop has consumed
    unique_tables,  \* the dict of Tables, in insertion order
    tables_out,     \* the returned list
    tpc,            \* "loop" | "returned" | "off"
    placed,         \* history: per consumed row, the position of the Table
                    \* its Column was appended to
    \* ---- app/model/metadata/clickhouse.py, _transform_column_type
    data_type,      \* the argument
    base,           \* history: the lower-case spelling data_type was drawn from
    mapped_out,     \* the returned column type
    ypc,            \* "call" | "returned" | "off"
    warnings        \* what logger.warning has been given, in order

cacheVars == <<cache, pc, cur, inv, ctorCalls, ncalls, last, during, returned, failed>>

tableVars == <<response, row_no, unique_tables, tables_out, tpc, placed>>

typeVars == <<data_type, base, mapped_out, ypc>>

vars == <<cacheVars, tableVars, typeVars, warnings>>

-----------------------------------------------------------------------------
(* Bounds *)

NumCallers == 2
MaxCalls == 3
MaxRows == 3

Callers == 1..NumCallers

-----------------------------------------------------------------------------
(* Python values: <<type name, content>>.  A frozenset's content is its    *)
(* set of (key, value) items, so two frozensets are equal iff they hold    *)
(* the same items, whatever the order they were built in.                  *)

NoneV == <<"none", {}>>
Str(s) == <<"str", {s}>>
FrozenSet(items) == <<"frozenset", items>>
Dict(items) == <<"dict", items>>

\* functools' kwd_mark = (object(),): equal to nothing a caller can pass.
KwdMark == <<"kwd_mark", {}>>

ManifestValues == {Str("M1")}
FunctionPathValues == {Str("fp")}
HashableProperties == {NoneV, FrozenSet({<<"x", 1>>})}
PropertiesValues == HashableProperties \cup {Dict({<<"x", 1>>})}

\* An argument list as the caller wrote it: positional arguments and keyword
\* arguments.  properties may be omitted, passed by position or by keyword.
ArgLists ==
    LET two == {<<m, f>> : m \in ManifestValues, f \in FunctionPathValues}
    IN  {[args |-> a, kwds |-> <<>>] : a \in two}
        \cup {[args |-> a \o <<p>>, kwds |-> <<>>] : a \in two, p \in PropertiesValues}
        \cup {[args |-> a, kwds |-> <<Str("properties"), p>>] : a \in two, p \in PropertiesValues}

NoCall == [args |-> <<>>, kwds |-> <<>>]

\* The parameter values the function body sees: properties defaults to None.
Bind(a) ==
    IF Len(a.args) = 3 THEN a.args
    ELSE IF a.kwds # <<>> THEN a.args \o <<a.kwds[2]>>
    ELSE a.args \o <<NoneV>>

\* functools._make_key / lru_cache_make_key: the positional arguments, then,
\* when keyword arguments were given, kwd_mark and each name and value.
make_key(a) ==
    IF a.kwds = <<>> THEN a.args ELSE a.args \o <<KwdMark>> \o a.kwds

\* Mutant: every value hashes, so the key of a call with a dict is looked up.
Hashable_AnyValue(v) == v[1] \in {"none", "str", "frozenset", "kwd_mark", "dict"}

\* hash(v): dict (like list and set) defines no __hash__.
Hashable(v) == v[1] \in {"none", "str", "frozenset", "kwd_mark"}

\* hash(key) of a tuple hashes every element.
KeyHashable(k) == \A i \in 1..Len(k) : Hashable(k[i])

-----------------------------------------------------------------------------
(* The cache dict.  Every instantiation is a new object: the handle built  *)
(* by the n-th SessionContext(m, f, p) call is <<<<m, f, p>>, n>>.         *)

Miss == <<>>
NoHandle == <<>>

ParamValues == {Bind(a) : a \in ArgLists}

Lookup(c, k) == IF k \in DOMAIN c THEN c[k] ELSE Miss

SetItem(c, k, h) == [x \in DOMAIN c \cup {k} |-> IF x = k THEN h ELSE c[x]]

Raised == [kind |-> "raise", h |-> NoHandle]
Returned(h) == [kind |-> "return", h |-> h]

\* Mutant: the failure is stored under the key like a result.
AfterCall_StoresFailure(c, k, outcome) ==
    SetItem(c, k, IF outcome.kind = "raise" THEN <<"ConstructionError">> ELSE outcome.h)

\* The wrapper after the wrapped function ends: an exception propagates and
\* nothing is stored; a result is stored under the key, replacing any entry.
AfterCall(c, k, outcome) ==
    IF outcome.kind = "raise" THEN c ELSE SetItem(c, k, outcome.h)

InFlight == {u \in Callers : pc[u] = "constructing"}

\* Mutant: one lock for the whole cache, held while the function runs.
Blocked_ByCacheLock(t) == InFlight \ {t} # {}

\* The wrapper holds no lock while the wrapped function runs.
Blocked(t) == FALSE

\* How a call ended: its arguments, what it returned or raised, and, for a
\* call that built its handle, whether another caller was constructing when
\* it started.
Ended(a, kind, h, du) == [args |-> a, kind |-> kind, h |-> h, during |-> du]

NoCallEnded == Ended(NoCall, "none", NoHandle, FALSE)

PriorHandles(a) == {r[2] : r \in {x \in returned : x[1] = Bind(a)}}

-----------------------------------------------------------------------------
(* Strings that the code takes apart or puts together are sequences of     *)
(* one-character strings.                                                  *)

UpperCase == <<"A", "B", "C", "D", "E", "F", "G", "H", "I", "J", "K", "L", "M",
               "N", "O", "P", "Q", "R", "S", "T", "U", "V", "W", "X", "Y", "Z">>
LowerCase == <<"a", "b", "c", "d", "e", "f", "g", "h", "i", "j", "k", "l", "m",
               "n", "o", "p", "q", "r", "s", "t", "u", "v", "w", "x", "y", "z">>

lower_char(c) ==
    IF \E i \in 1..26 : UpperCase[i] = c
    THEN LowerCase[CHOOSE i \in 1..26 : UpperCase[i] = c]
    ELSE c

upper_char(c) ==
    IF \E i \in 1..26 : LowerCase[i] = c
    THEN UpperCase[CHOOSE i \in 1..26 : LowerCase[i] = c]
    ELSE c

\* Mutant: the type string is looked up as given.
lower_Unchanged(s) == s

\* str.lower()
lower(s) == [i \in 1..Len(s) |-> lower_char(s[i])]

CLICKHOUSE_TYPE_MAPPING ==
    <<"b", "o", "o", "l", "e", "a", "n">> :> "BOOL" @@
    <<"i", "n", "t", "8">> :> "TINYINT" @@
    <<"u", "i", "n", "t", "8">> :> "INT2" @@
    <<"i", "n", "t", "1", "6">> :> "INT2" @@
    <<"u", "i", "n", "t", "1", "6">> :> "INT2" @@
    <<"i", "n", "t", "3", "2">> :> "INT4" @@
    <<"u", "i", "n", "t", "3", "2">> :> "INT4" @@
    <<"i", "n", "t", "6", "4">> :> "INT8" @@
    <<"u", "i", "n", "t", "6", "4">> :> "INT8" @@
    <<"f", "l", "o", "a", "t", "3", "2">> :> "FLOAT4" @@
    <<"f", "l", "o", "a", "t", "6", "4">> :> "FLOAT8" @@
    <<"d", "e", "c", "i", "m", "a", "l">> :> "DECIMAL" @@
    <<"d", "a", "t", "e">> :> "DATE" @@
    <<"d", "a", "t", "e", "t", "i", "m", "e">> :> "TIMESTAMP" @@
    <<"s", "t", "r", "i", "n", "g">> :> "VARCHAR" @@
    <<"f", "i", "x", "e", "d", "s", "t", "r", "i", "n", "g">> :> "CHAR" @@
    <<"u", "u", "i", "d">> :> "UUID" @@
    <<"e", "n", "u", "m", "8">> :> "STRING" @@
    <<"e", "n", "u", "m", "1", "6">> :> "STRING" @@
    <<"i", "p", "v", "4">> :> "INET" @@
    <<"i", "p", "v", "6">> :> "INET"

UNKNOWN == "UNKNOWN"

\* dict.get(key, default)
Get(d, k, default) == IF k \in DOMAIN d THEN d[k] ELSE default

\* logger.warning(f"Unknown ClickHouse data type: {data_type}")
Warning(arg) == [level |-> "WARNING", text |-> "Unknown ClickHouse data type: ", arg |-> arg]

\* _transform_column_type: the returned type and what it logs.
transform_column_type(s) ==
    LET normalized_type == lower(s)
        mapped_type == Get(CLICKHOUSE_TYPE_MAPPING, normalized_type, UNKNOWN)
    IN  [type |-> mapped_type,
         log |-> IF mapped_type = UNKNOWN THEN <<Warning(s)>> ELSE <<>>]

\* Type strings absent from the mapping: the empty string, parameterized and
\* nested types, a near miss, a padded name.
UnmappedWords == {
    <<>>,
    <<"a", "r", "r", "a", "y", "(", "s", "t", "r", "i", "n", "g", ")">>,
    <<"n", "u", "l", "l", "a", "b", "l", "e", "(", "i", "n", "t", "8", ")">>,
    <<"d", "e", "c", "i", "m", "a", "l", "(", "9", ",", "2", ")">>,
    <<"i", "n", "t", "1", "2", "8">>,
    <<" ", "i", "n", "t", "8">> }

TypeWords == DOMAIN CLICKHOUSE_TYPE_MAPPING \cup UnmappedWords

\* Every spelling of w that differs from it only in letter case.
RECURSIVE CaseVariants(_)
CaseVariants(w) ==
    IF w = <<>> THEN {<<>>}
    ELSE {<<c>> \o r : c \in {Head(w), upper_char(Head(w))}, r \in CaseVariants(Tail(w))}

-----------------------------------------------------------------------------
(* get_table_list                                                          *)

Dot == "."

\* The tables of the database as <<schema, table>>.  ClickHouse allows a dot
\* inside a quoted name: the second and the third are different tables.
SourceTables == {
    <<<<"a">>, <<"c">>>>,
    <<<<"a">>, <<"b", Dot, "c">>>>,
    <<<<"a", Dot, "b">>, <<"c">>>> }
ColumnNames == {"x", "y"}
RowTypes == {<<"I", "n", "t", "3", "2">>, <<"J", "S", "O", "N">>}

\* One record of the response.  The query joins system.columns to
\* system.tables on (database, table), so table_comment is the table's own.
Rows ==
    {[table_schema |-> st[1], table_name |-> st[2], table_comment |-> <<"comment", st>>,
      column_name |-> cn, data_type |-> ty, column_comment |-> ""] :
        st \in SourceTables, cn \in ColumnNames, ty \in RowTypes}

RECURSIVE SeqsUpTo(_, _)
SeqsUpTo(S, n) ==
    IF n = 0 THEN {<<>>}
    ELSE LET shorter == SeqsUpTo(S, n - 1)
         IN  shorter \cup {Append(q, x) : q \in {r \in shorter : Len(r) = n - 1}, x \in S}

\* f"{schema}.{table}"
format_compact_table_name(schema, table) == schema \o <<Dot>> \o table

\* Mutant: every name is taken for a new one.
Contains_Never(tables, name) == FALSE

\* schema_table in unique_tables
Contains(tables, name) == \E i \in 1..Len(tables) : tables[i].name = name

\* Table(name=..., description=..., columns=[], properties=..., primaryKey="")
NewTable(row, schema_table) ==
    [name |-> schema_table,
     description |-> row.table_comment,
     columns |-> <<>>,
     properties |-> [catalog |-> "None", schema |-> row.table_schema, table |-> row.table_name],
     primaryKey |-> ""]

\* Column(name=..., type=..., notNull=False, description=..., properties=None)
NewColumn(row) ==
    [name |-> row.column_name,
     type |-> transform_column_type(row.data_type).type,
     notNull |-> FALSE,
     description |-> row.column_comment,
     properties |-> "None"]

\* unique_tables[name] = table: a new key goes last, a known key keeps its place.
SetTable(tables, name, table) ==
    IF \E i \in 1..Len(tables) : tables[i].name = name
    THEN [i \in 1..Len(tables) |-> IF tables[i].name = name THEN table ELSE tables[i]]
    ELSE Append(tables, table)

\* Mutant: the Column goes to the first Table of the dict.
AppendColumn_ToFirstTable(tables, name, col) ==
    [i \in 1..Len(tables) |->
        IF i = 1 THEN [tables[i] EXCEPT !.columns = Append(@, col)] ELSE tables[i]]

\* Mutant: a Column whose name the Table already holds is dropped.
AppendColumn_Deduplicating(tables, name, col) ==
    [i \in 1..Len(tables) |->
        IF tables[i].name = name /\ \A j \in 1..Len(tables[i].columns) : tables[i].columns[j].name # col.name
        THEN [tables[i] EXCEPT !.columns = Append(@, col)]
        ELSE tables[i]]

\* unique_tables[name].columns.append(col)
AppendColumn(tables, name, col) ==
    [i \in 1..Len(tables) |->
        IF tables[i].name = name THEN [tables[i] EXCEPT !.columns = Append(@, col)] ELSE tables[i]]

\* The parts of the state a specification does not run.
CacheOff ==
    /\ cache = [k \in {} |-> NoHandle]
    /\ pc = [t \in Callers |-> "idle"]
    /\ cur = [t \in Callers |-> NoCall]
    /\ inv = [t \in Callers |-> NoHandle]
    /\ ctorCalls = [k \in ParamValues |-> 0]
    /\ ncalls = MaxCalls
    /\ last = NoCallEnded
    /\ during = [t \in Callers |-> FALSE]
    /\ returned = {}
    /\ failed = {}

TablesOff ==
    /\ response = <<>>
    /\ row_no = 0
    /\ unique_tables = <<>>
    /\ tables_out = <<>>
    /\ tpc = "off"
    /\ placed = <<>>

TypeOff ==
    /\ data_type = <<>>
    /\ base = <<>>
    /\ mapped_out = "None"
    /\ ypc = "off"

InitTables ==
    /\ response \in SeqsUpTo(Rows, MaxRows)
    /\ row_no = 0
    /\ unique_tables = <<>>
    /\ tables_out = <<>>
    /\ tpc = "loop"
    /\ placed = <<>>
    /\ CacheOff /\ TypeOff /\ warnings = <<>>

\* One pass of the for loop over the response.
LoopRow ==
    /\ tpc = "loop"
    /\ row_no < Len(response)
    /\ LET row == response[row_no + 1]
           schema_table == format_compact_table_name(row.table_schema, row.table_name)
           initialised == IF ~Contains(unique_tables, schema_table)
                          THEN SetTable(unique_tables, schema_table, NewTable(row, schema_table))
                          ELSE unique_tables
           appended == AppendColumn(initialised, schema_table, NewColumn(row))
       IN  /\ unique_tables' = appended
           /\ warnings' = warnings \o transform_column_type(row.data_type).log
           /\ placed' = Append(placed,
                   {i \in 1..Len(appended) :
                        Len(appended[i].columns) # Len(initialised[i].columns)})
    /\ row_no' = row_no + 1
    /\ UNCHANGED <<response, tables_out, tpc>>
    /\ UNCHANGED <<cacheVars, typeVars>>

\* return list(unique_tables.values())
ReturnTables ==
    /\ tpc = "loop"
    /\ row_no = Len(response)
    /\ tables_out' = unique_tables
    /\ tpc' = "returned"
    /\ UNCHANGED <<response, row_no, unique_tables, placed, warnings>>
    /\ UNCHANGED <<cacheVars, typeVars>>

-----------------------------------------------------------------------------
(* _transform_column_type on its own                                       *)

InitType ==
    /\ base \in TypeWords
    /\ data_type \in CaseVariants(base)
    /\ mapped_out = "None"
    /\ ypc = "call"
    /\ CacheOff /\ TablesOff /\ warnings = <<>>

\* One call of _transform_column_type.
Transform ==
    /\ ypc = "call"
    /\ mapped_out' = transform_column_type(data_type).type
    /\ warnings' = warnings \o transform_column_type(data_type).log
    /\ ypc' = "returned"
    /\ UNCHANGED <<data_type, base>>
    /\ UNCHANGED <<cacheVars, tableVars>>

-----------------------------------------------------------------------------
InitCache ==
    /\ cache = [k \in {} |-> NoHandle]
    /\ pc = [t \in Callers |-> "idle"]
    /\ cur = [t \in Callers |-> NoCall]
    /\ inv = [t \in Callers |-> NoHandle]
    /\ ctorCalls = [k \in ParamValues |-> 0]
    /\ ncalls = 0
    /\ last = NoCallEnded
    /\ during = [t \in Callers |-> FALSE]
    /\ returned = {}
    /\ failed = {}
    /\ TablesOff /\ TypeOff /\ warnings = <<>>

\* A caller enters the wrapper: the key is built and hashed, the dict is
\* probed; on a hit the stored handle is returned, on a miss the function
\* body runs and invokes the SessionContext constructor.
Call(t, a) ==
    /\ pc[t] = "idle"
    /\ ncalls < MaxCalls
    /\ ~Blocked(t)
    /\ ncalls' = ncalls + 1
    /\ IF ~KeyHashable(make_key(a))
       THEN /\ last' = Ended(a, "TypeError", NoHandle, FALSE)
            /\ UNCHANGED <<cache, pc, cur, inv, ctorCalls, during, returned, failed>>
       ELSE IF Lookup(cache, make_key(a)) # Miss
       THEN /\ last' = Ended(a, "handle", Lookup(cache, make_key(a)), FALSE)
            /\ returned' = returned \cup {<<Bind(a), Lookup(cache, make_key(a))>>}
            /\ UNCHANGED <<cache, pc, cur, inv, ctorCalls, during, failed>>
       ELSE /\ pc' = [pc EXCEPT ![t] = "constructing"]
            /\ cur' = [cur EXCEPT ![t] = a]
            /\ during' = [during EXCEPT ![t] = InFlight # {}]
            /\ ctorCalls' = [ctorCalls EXCEPT ![Bind(a)] = @ + 1]
            /\ inv' = [inv EXCEPT ![t] = <<Bind(a), ctorCalls[Bind(a)] + 1>>]
            /\ UNCHANGED <<cache, last, returned, failed>>
    /\ UNCHANGED <<tableVars, typeVars, warnings>>

\* The constructor returns a new SessionContext.
CtorReturn(t) ==
    /\ pc[t] = "constructing"
    /\ pc' = [pc EXCEPT ![t] = "built"]
    /\ UNCHANGED <<cache, cur, inv, ctorCalls, ncalls, last, during, returned, failed>>
    /\ UNCHANGED <<tableVars, typeVars, warnings>>

\* The constructor raises: the exception leaves the wrapper.
CtorRaise(t) ==
    /\ pc[t] = "constructing"
    /\ cache' = AfterCall(cache, make_key(cur[t]), Raised)
    /\ last' = Ended(cur[t], "ConstructionError", NoHandle, FALSE)
    /\ failed' = failed \cup {Bind(cur[t])}
    /\ pc' = [pc EXCEPT ![t] = "idle"]
    /\ cur' = [cur EXCEPT ![t] = NoCall]
    /\ inv' = [inv EXCEPT ![t] = NoHandle]
    /\ during' = [during EXCEPT ![t] = FALSE]
    /\ UNCHANGED <<ctorCalls, ncalls, returned>>
    /\ UNCHANGED <<tableVars, typeVars, warnings>>

\* Back in the wrapper: the result is stored and returned.
Store(t) ==
    /\ pc[t] = "built"
    /\ cache' = AfterCall(cache, make_key(cur[t]), Returned(inv[t]))
    /\ last' = Ended(cur[t], "handle", inv[t], during[t])
    /\ returned' = returned \cup {<<Bind(cur[t]), inv[t]>>}
    /\ pc' = [pc EXCEPT ![t] = "idle"]
    /\ cur' = [cur EXCEPT ![t] = NoCall]
    /\ inv' = [inv EXCEPT ![t] = NoHandle]
    /\ during' = [during EXCEPT ![t] = FALSE]
    /\ UNCHANGED <<ctorCalls, ncalls, failed>>
    /\ UNCHANGED <<tableVars, typeVars, warnings>>

NextCache ==
    \/ \E t \in Callers, a \in ArgLists : Call(t, a)
    \/ \E t \in Callers : CtorReturn(t)
    \/ \E t \in Callers : CtorRaise(t)
    \/ \E t \in Callers : Store(t)

SpecCache == InitCache /\ [][NextCache]_vars

NextTables == LoopRow \/ ReturnTables

SpecTables == InitTables /\ [][NextTables]_vars

NextType == Transform

SpecType == InitType /\ [][NextType]_vars

-----------------------------------------------------------------------------
(* Claims about get_session_context, checked under SpecCache.              *)

\* C1: when two callers are concurrently inside get_session_context with the
\* same key, a key whose construction has not failed before, the constructor
\* has been invoked exactly once for it and both callers get the same handle.
C1_ExactlyOnceConstruction ==
    \A t, u \in Callers :
        (/\ t # u
         /\ pc[t] # "idle"
         /\ pc[u] # "idle"
         /\ make_key(cur[t]) = make_key(cur[u])
         /\ Bind(cur[t]) \notin failed)
        => /\ ctorCalls[Bind(cur[t])] = 1
           /\ inv[t] = inv[u]

\* C2: once a call for parameter values K has returned handle H, a call that
\* starts later with values equal to K returns H and does not invoke the
\* constructor; no step removes or replaces a stored entry.
C2_HandleStableForever ==
    [][/\ \A t \in Callers :
            (pc[t] = "idle" /\ pc'[t] = "constructing") => PriorHandles(cur'[t]) = {}
       /\ (ncalls' # ncalls /\ pc' = pc /\ last'.kind = "handle")
            => PriorHandles(last'.args) \subseteq {last'.h}
       /\ \A k \in DOMAIN cache : k \in DOMAIN cache' /\ cache'[k] = cache[k]
      ]_vars

\* C7: two calls return the same handle if and only if their parameter values
\* (manifest_str, function_path, properties) are equal.
C7_SharedIffEqualKeys ==
    \A r1, r2 \in returned : (r1[1] = r2[1]) <=> (r1[2] = r2[2])

PropertiesOf(a) == Bind(a)[3]
IsMutableMapping(v) == v[1] = "dict"

C9_UnhashableRejectedFirst ==
    [][ncalls' # ncalls =>
        \/ /\ pc' = pc
           /\ IsMutableMapping(PropertiesOf(last'.args))
           /\ last'.kind = "TypeError"
           /\ cache' = cache
           /\ ctorCalls' = ctorCalls
        \/ /\ pc' = pc
           /\ ~IsMutableMapping(PropertiesOf(last'.args))
           /\ last'.kind = "handle"
        \/ /\ pc' # pc
           /\ \A t \in Callers : pc'[t] # pc[t] => ~IsMutableMapping(PropertiesOf(cur'[t]))
      ]_vars

\* A call was rejected while the cache held an entry and another caller was
\* constructing.
C9_Witness ==
    /\ last.kind = "TypeError"
    /\ IsMutableMapping(PropertiesOf(last.args))
    /\ ctorCalls[Bind(last.args)] = 0
    /\ DOMAIN cache # {}
    /\ InFlight # {}

\* C10: while a constructor call for key K1 is in flight, another caller is
\* never held back on a different key K2: it can enter with K2, its own
\* constructor call can return, and it can store and return its handle.
C10_DistinctKeysIndependent ==
    \A u, t \in Callers :
        (u # t /\ pc[u] = "constructing") =>
            /\ (pc[t] = "idle" /\ ncalls < MaxCalls) =>
                   \A a \in ArgLists :
                       make_key(a) # make_key(cur[u]) => ENABLED Call(t, a)
            /\ (pc[t] = "constructing" /\ make_key(cur[t]) # make_key(cur[u])) =>
                   ENABLED CtorReturn(t)
            /\ (pc[t] = "built" /\ make_key(cur[t]) # make_key(cur[u])) =>
                   ENABLED Store(t)

\* Caller u's constructor call is still in flight; caller t entered with a
\* different key while it was, built its own handle and returned it.
C10_Witness ==
    \E u \in Callers :
        /\ pc[u] = "constructing"
        /\ ncalls = 2
        /\ last.kind = "handle"
        /\ last.during
        /\ make_key(last.args) # make_key(cur[u])
        /\ last.h = <<Bind(last.args), 1>>

-----------------------------------------------------------------------------
(* Claims about get_table_list, checked under SpecTables.                  *)

CompactNameOf(row) == format_compact_table_name(row.table_schema, row.table_name)

PairOf(row) == <<row.table_schema, row.table_name>>

RowNumbers == 1..Len(response)

\* The elements of a sequence, each once, in order of first occurrence.
RECURSIVE FirstSeen(_)
FirstSeen(q) ==
    IF q = <<>> THEN <<>>
    ELSE LET front == FirstSeen(SubSeq(q, 1, Len(q) - 1))
             x == q[Len(q)]
         IN  IF \E i \in 1..Len(front) : front[i] = x THEN front ELSE Append(front, x)

RowsNamed(name) == SelectSeq(response, LAMBDA r : CompactNameOf(r) = name)

RECURSIVE ColumnCount(_)
ColumnCount(tables) ==
    IF tables = <<>> THEN 0 ELSE Len(Head(tables).columns) + ColumnCount(Tail(tables))

DistinctColumnNames(columns) ==
    \A i, j \in 1..Len(columns) : i # j => columns[i].name # columns[j].name

\* C4 as stated: two rows whose (table_schema, table_name) pairs differ have
\* their Columns in different returned Tables.
C4_DifferentPairsNeverMerge ==
    tpc = "returned" =>
        \A i, j \in RowNumbers :
            PairOf(response[i]) # PairOf(response[j]) => placed[i] \cap placed[j] = {}

\* C4 amended: every row's Column is in exactly one returned Table, and two
\* rows share a Table exactly when their compact names "{schema}.{table}" are
\* equal, so rows of different pairs are kept apart unless their compact
\* names coincide.
C4_MergeIffSameCompactName ==
    tpc = "returned" =>
        /\ \A i \in RowNumbers : Cardinality(placed[i]) = 1
        /\ \A i, j \in RowNumbers :
               (placed[i] = placed[j]) <=> (CompactNameOf(response[i]) = CompactNameOf(response[j]))
        /\ \A i, j \in RowNumbers :
               (PairOf(response[i]) # PairOf(response[j]) /\ placed[i] = placed[j])
               => \E k \in 1..Len(tables_out) :
                      /\ placed[i] = {k}
                      /\ tables_out[k].name = CompactNameOf(response[i])
                      /\ tables_out[k].name = CompactNameOf(response[j])

\* Rows of ("a.b", "c") and ("a", "b.c") were merged into one Table while a
\* row of another compact name went to a second Table.
C4_Witness ==
    /\ tpc = "returned"
    /\ Len(tables_out) = 2
    /\ \E i, j \in RowNumbers :
           PairOf(response[i]) # PairOf(response[j]) /\ placed[i] = placed[j]

\* C5: the returned list holds one Table per distinct compact name, in order
\* of first occurrence, no two with the same name; a Table's columns are the
\* Columns of the rows carrying its name, one per row, in arrival order; the
\* Columns number as many as the rows.
C5_TablesAssembled ==
    tpc = "returned" =>
        LET names == FirstSeen([i \in RowNumbers |-> CompactNameOf(response[i])])
        IN  /\ Len(tables_out) = Len(names)
            /\ \A k \in 1..Len(names) :
                   /\ tables_out[k].name = names[k]
                   /\ Len(tables_out[k].columns) = Len(RowsNamed(names[k]))
                   /\ \A c \in 1..Len(tables_out[k].columns) :
                          tables_out[k].columns[c] = NewColumn(RowsNamed(names[k])[c])
            /\ \A k, l \in 1..Len(tables_out) :
                   k # l => tables_out[k].name # tables_out[l].name
            /\ ColumnCount(tables_out) = Len(response)

\* Three rows, the first and the last of one table and the second of
\* another: two Tables, the first with two Columns.
C5_Witness ==
    /\ tpc = "returned"
    /\ Len(response) = 3
    /\ Len(tables_out) = 2
    /\ CompactNameOf(response[1]) = CompactNameOf(response[3])
    /\ CompactNameOf(response[1]) # CompactNameOf(response[2])
    /\ Len(tables_out[1].columns) = 2
    /\ tables_out[1].columns[1].name # tables_out[1].columns[2].name

\* C8 as stated: no returned Table has two Columns of the same name.
C8_ColumnNamesUnique ==
    tpc = "returned" =>
        \A k \in 1..Len(tables_out) : DistinctColumnNames(tables_out[k].columns)

\* C8 amended: a returned Table's Columns have pairwise different names
\* exactly when the rows carrying its compact name have pairwise different
\* column names; get_table_list drops no Column, so a repeated row gives a
\* repeated Column.
C8_UniqueIffRowsUnique ==
    tpc = "returned" =>
        \A k \in 1..Len(tables_out) :
            DistinctColumnNames(tables_out[k].columns)
            <=> \A i, j \in RowNumbers :
                    (/\ i # j
                     /\ CompactNameOf(response[i]) = tables_out[k].name
                     /\ CompactNameOf(response[j]) = tables_out[k].name)
                    => response[i].column_name # response[j].column_name

\* The same row twice: one Table with two Columns of the same name.
C8_Witness ==
    /\ tpc = "returned"
    /\ Len(response) = 2
    /\ response[1] = response[2]
    /\ Len(tables_out) = 1
    /\ Len(tables_out[1].columns) = 2
    /\ tables_out[1].columns[1].name = tables_out[1].columns[2].name

-----------------------------------------------------------------------------
(* Claims about _transform_column_type, checked under SpecType.            *)

\* C6: for a type string that is some spelling, in any letter case, of a key
\* of CLICKHOUSE_TYPE_MAPPING the call returns that key's entry and logs
\* nothing; for any other string it returns UNKNOWN and logs exactly one
\* warning, which carries the string as given; the call always returns.
C6_TypeMapping ==
    /\ ypc = "call" => ENABLED Transform
    /\ ypc = "returned" =>
        IF base \in DOMAIN CLICKHOUSE_TYPE_MAPPING
        THEN /\ mapped_out = CLICKHOUSE_TYPE_MAPPING[base]
             /\ mapped_out # UNKNOWN
             /\ warnings = <<>>
        ELSE /\ mapped_out = UNKNOWN
             /\ warnings = <<Warning(data_type)>>

\* "INT32" was mapped to INT4 without a warning.
C6_Witness ==
    /\ ypc = "returned"
    /\ data_type = <<"I", "N", "T", "3", "2">>
    /\ mapped_out = "INT4"
    /\ warnings = <<>>

=============================================================================
